---- MODULE Spec2Model ----
(***************************************************************************)
(* BgfGltfConverter.convert_bgf_file of europa-1400-tools: the conversion  *)
(* of one decoded mesh record (Bgf) into one glTF container.  The function *)
(* is sequential; the model follows it stage by stage (pc), with the       *)
(* container (gltf) and the locals of the function as state.               *)
(***************************************************************************)
EXTENDS Integers, Sequences, FiniteSets, TLC

\* ------------------------------------------------------------------ bounds
MaxDeclared == 3    \* longest declared texture-name table (bgf.footer.texture_names)
MaxTextures == 2    \* longest list of resolved textures
MaxPolygons == 2    \* most polygons of a mesh record
MaxSlot == 1        \* largest texture-slot index of a polygon
MaxBafs == 2        \* most entries of baf_to_bgfs
MaxKeyframes == 2   \* largest keyframe_count / longest key_times list

\* ------------------------------------------------------------ sequences
Range(s) == {s[i] : i \in 1..Len(s)}

SeqsUpTo(S, n) == UNION {[1..k -> S] : k \in 0..n}

RECURSIVE Concat(_)
Concat(ss) == IF ss = <<>> THEN <<>> ELSE Head(ss) \o Concat(Tail(ss))

\* list.index(x), 0-based: the position of the first occurrence
Index(s, x) == (CHOOSE i \in 1..Len(s) : s[i] = x /\ \A j \in 1..(i - 1) : s[j] # x) - 1

\* --------------------------------------------------------------- names
\* A name is a sequence of characters.
Lower(name) ==
    [i \in 1..Len(name) |->
        CASE name[i] = "A" -> "a"
          [] name[i] = "B" -> "b"
          [] name[i] = "C" -> "c"
          [] name[i] = "W" -> "w"
          [] OTHER -> name[i]]

RECURSIVE StripLeft(_)
StripLeft(name) ==
    IF name # <<>> /\ Head(name) = " " THEN StripLeft(Tail(name)) ELSE name

RECURSIVE StripRight(_)
StripRight(name) ==
    IF name # <<>> /\ name[Len(name)] = " "
    THEN StripRight(SubSeq(name, 1, Len(name) - 1))
    ELSE name

Strip(name) == StripRight(StripLeft(name))

normalize(name) == Strip(Lower(name))

\* the spellings the texture names are drawn from: two spellings of a, and c
RawNames == {<<"A">>, <<"a", " ">>, <<"c">>}

\* ------------------------------------------------------------- textures
\* A resolved Texture: bgf_texture.name and its identity (1-based position
\* in the list handed to convert_bgf_file; it stands for main_texture_path).
NoneTexture == [name |-> <<>>, id |-> 0]

MakeTextures(names) == [i \in 1..Len(names) |-> [name |-> names[i], id |-> i]]

\* lines 134-139: the declared names some resolved texture matches
FooterNames(footer, textures) ==
    SelectSeq(footer,
              LAMBDA n : \E i \in 1..Len(textures) :
                             normalize(textures[i].name) = normalize(n))

NormalizedFooterNames(footer, textures) ==
    LET names == FooterNames(footer, textures)
    IN  [i \in 1..Len(names) |-> normalize(names[i])]

\* lines 144-152: the loop over the resolved textures, from texture i on.
\* acc = [reordered, missing, raised]; raised: list assignment index out of
\* range at line 152.
RECURSIVE ReorderLoop(_, _, _, _)
ReorderLoop(textures, normalized_footer_names, i, acc) ==
    IF i > Len(textures) \/ acc.raised THEN acc
    ELSE LET texture == textures[i]
             n == normalize(texture.name)
         IN  IF n \notin Range(normalized_footer_names)
             THEN ReorderLoop(textures, normalized_footer_names, i + 1,
                      [acc EXCEPT !.missing = Append(@, texture)])
             ELSE LET texture_index == Index(normalized_footer_names, n)
                  IN  IF texture_index >= Len(acc.reordered)
                      THEN [acc EXCEPT !.raised = TRUE]
                      ELSE ReorderLoop(textures, normalized_footer_names, i + 1,
                               [acc EXCEPT !.reordered[texture_index + 1] = texture])

\* lines 131-156: texture resolution of convert_bgf_file
ReorderTextures(footer, textures) ==
    LET acc == ReorderLoop(textures, NormalizedFooterNames(footer, textures), 1,
                   [reordered |-> [i \in 1..Len(textures) |-> NoneTexture],
                    missing |-> <<>>,
                    raised |-> FALSE])
    IN  [raised |-> acc.raised,
         textures |-> IF acc.raised THEN <<>>
                      ELSE SelectSeq(acc.reordered, LAMBDA t : t # NoneTexture)
                               \o acc.missing]

\* ----------------------------------------------------------- mesh record
NumVertices == 4    \* vertices of the mesh record

\* bgf.mapping_object.vertex_mappings: vertex1 the position, vertex2 the normal
VertexMappings ==
    [v \in 1..NumVertices |->
        [vertex1 |-> <<v, 2 * v, 3 * v>>, vertex2 |-> <<0, v, 1>>]]

FaceChoices == {[a |-> 0, b |-> 1, c |-> 2], [a |-> 0, b |-> 2, c |-> 3]}

TextureMappingChoices ==
    {[a |-> <<0, 0>>, b |-> <<1, 0>>, c |-> <<0, 1>>],
     [a |-> <<0, 0>>, b |-> <<0, 1>>, c |-> <<1, 1>>]}

Polygons == [face : FaceChoices,
             texture_index : 0..MaxSlot,
             texture_mapping : TextureMappingChoices]

\* a numpy array: its number of dimensions and its elements
NpArray(ndim, values) == [ndim |-> ndim, values |-> values]

\* GltfPrimitive (lines 59-69); NonePrimitive is calculate_primitive's None
NonePrimitive ==
    [indices |-> <<>>, vertices |-> <<>>, normals |-> <<>>, uvs |-> <<>>,
     baf_to_vertices_per_key |-> <<>>, texture_index |-> -1,
     texture |-> NoneTexture]

\* the mask of lines 540-541 written with >= for ==
RECURSIVE MaskedFrom(_, _, _)
MaskedFrom(rows, texture_indices, texture_index) ==
    IF rows = <<>> THEN <<>>
    ELSE (IF Head(texture_indices) >= texture_index THEN <<Head(rows)>> ELSE <<>>)
             \o MaskedFrom(Tail(rows), Tail(texture_indices), texture_index)

\* faces[texture_indices == texture_index] (lines 540-541)
RECURSIVE Masked(_, _, _)
Masked(rows, texture_indices, texture_index) ==
    IF rows = <<>> THEN <<>>
    ELSE (IF Head(texture_indices) = texture_index THEN <<Head(rows)>> ELSE <<>>)
             \o Masked(Tail(rows), Tail(texture_indices), texture_index)

\* the key of line 560 without the UV pair
VertexKeyWithoutUv(selected_face_vertex_index, selected_face_uv) ==
    <<selected_face_vertex_index, 0, 0>>

\* line 560: the key a face corner is deduplicated by
VertexKey(selected_face_vertex_index, selected_face_uv) ==
    <<selected_face_vertex_index, selected_face_uv[1], selected_face_uv[2]>>

\* lines 553-584: the loop over the corners of the selected faces, flattened;
\* corner = <<vertex index, uv>>
RECURSIVE CornerLoop(_, _, _, _)
CornerLoop(corners, vertices, normals, acc) ==
    IF corners = <<>> THEN acc
    ELSE LET selected_face_vertex_index == Head(corners)[1]
             selected_face_uv == Head(corners)[2]
             key == VertexKey(selected_face_vertex_index, selected_face_uv)
             fresh == key \notin DOMAIN acc.vertex_dict
             primitive_index == Len(acc.primitive_vertices)
             dict == IF fresh THEN acc.vertex_dict @@ (key :> primitive_index)
                     ELSE acc.vertex_dict
         IN  CornerLoop(Tail(corners), vertices, normals,
                 [vertex_dict |-> dict,
                  primitive_vertices |->
                      IF fresh
                      THEN Append(acc.primitive_vertices,
                                  vertices[selected_face_vertex_index + 1])
                      ELSE acc.primitive_vertices,
                  primitive_normals |->
                      IF fresh
                      THEN Append(acc.primitive_normals,
                                  normals[selected_face_vertex_index + 1])
                      ELSE acc.primitive_normals,
                  primitive_face_uvs |->
                      IF fresh THEN Append(acc.primitive_face_uvs, selected_face_uv)
                      ELSE acc.primitive_face_uvs,
                  primitive_indices |-> Append(acc.primitive_indices, dict[key])])

\* the loop of lines 553-556 stopping one face early
CornersButLastFace(selected_faces, selected_face_uvs) ==
    Concat([f \in 1..(Len(selected_faces) - 1) |->
               [k \in 1..3 |-> <<selected_faces[f][k], selected_face_uvs[f][k]>>]])

\* the corners of the selected faces in loop order (the two zips, lines 553-556;
\* zip stops at the shorter of its two arguments)
Corners(selected_faces, selected_face_uvs) ==
    Concat([f \in 1..(IF Len(selected_faces) <= Len(selected_face_uvs)
                      THEN Len(selected_faces) ELSE Len(selected_face_uvs)) |->
               [k \in 1..3 |-> <<selected_faces[f][k], selected_face_uvs[f][k]>>]])

\* a boolean index that never fails
MaskNeverRaises(rows, texture_indices) == FALSE

\* lines 540-541: numpy refuses a boolean index whose length is not the
\* length of the indexed array (IndexError)
MaskRaises(rows, texture_indices) == Len(rows) # Len(texture_indices)

\* lines 540-541: the exception calculate_primitive ends with, "" if it returns
calculate_primitive_raised(faces, texture_indices, face_uvs) ==
    IF MaskRaises(faces, texture_indices) THEN "IndexError at line 540"
    ELSE IF MaskRaises(face_uvs, texture_indices) THEN "IndexError at line 541"
    ELSE ""

\* lines 524-605: the value calculate_primitive returns when it returns
calculate_primitive(faces, texture_indices, vertices, normals, face_uvs, texture_index, texture) ==
    LET selected_faces == Masked(faces, texture_indices, texture_index)
        selected_face_uvs == Masked(face_uvs, texture_indices, texture_index)
    IN  IF Len(selected_faces) = 0 \/ Len(selected_face_uvs) = 0
        THEN NonePrimitive
        ELSE LET acc == CornerLoop(Corners(selected_faces, selected_face_uvs),
                            vertices, normals,
                            [vertex_dict |-> <<>>,
                             primitive_vertices |-> <<>>,
                             primitive_normals |-> <<>>,
                             primitive_face_uvs |-> <<>>,
                             primitive_indices |-> <<>>])
             IN  [indices |-> acc.primitive_indices,
                  vertices |-> acc.primitive_vertices,
                  normals |-> acc.primitive_normals,
                  uvs |-> acc.primitive_face_uvs,
                  baf_to_vertices_per_key |-> <<>>,
                  texture_index |-> texture_index,
                  texture |-> texture]

\* lines 442-501: the arrays _convert_mesh builds from the mesh record
MeshFaces(bgf) ==
    [p \in 1..Len(bgf.polygons) |->
        <<bgf.polygons[p].face.a, bgf.polygons[p].face.c, bgf.polygons[p].face.b>>]

MeshTextureIndices(bgf) ==
    [p \in 1..Len(bgf.polygons) |-> bgf.polygons[p].texture_index]

MeshVertices(bgf) ==
    [v \in 1..Len(bgf.vertex_mappings) |->
        <<bgf.vertex_mappings[v].vertex1[1],
          bgf.vertex_mappings[v].vertex1[2],
          -bgf.vertex_mappings[v].vertex1[3]>>]

MeshNormals(bgf) ==
    [v \in 1..Len(bgf.vertex_mappings) |->
        <<bgf.vertex_mappings[v].vertex2[1],
          bgf.vertex_mappings[v].vertex2[2],
          -bgf.vertex_mappings[v].vertex2[3]>>]

MeshFaceUvs(bgf) ==
    [p \in 1..Len(bgf.polygons) |->
        <<bgf.polygons[p].texture_mapping.a,
          bgf.polygons[p].texture_mapping.c,
          bgf.polygons[p].texture_mapping.b>>]

\* the range of line 508 one slot short
SlotRangeShort(textures) == 0..(Len(textures) - 2)

\* line 508: range(len(textures))
SlotRange(textures) == 0..(Len(textures) - 1)

\* lines 508-520: the loop over the texture slots, from slot texture_index on
RECURSIVE SlotLoop(_, _, _)
SlotLoop(bgf, textures, texture_index) ==
    IF texture_index \notin SlotRange(textures) THEN <<>>
    ELSE LET primitive == calculate_primitive(MeshFaces(bgf), MeshTextureIndices(bgf),
                              MeshVertices(bgf), MeshNormals(bgf), MeshFaceUvs(bgf),
                              texture_index, textures[texture_index + 1])
         IN  (IF primitive # NonePrimitive THEN <<primitive>> ELSE <<>>)
                 \o SlotLoop(bgf, textures, texture_index + 1)

\* lines 431-522: gltf_mesh.primitives
convert_mesh(bgf, textures) == SlotLoop(bgf, textures, 0)

\* ------------------------------------------------------------- container
SetMin(S) == CHOOSE x \in S : \A y \in S : x <= y
SetMax(S) == CHOOSE x \in S : \A y \in S : x >= y

\* lines 404-413: min and max of the data; None is <<>>.  np.min and np.max
\* raise ValueError on an array without elements.
MinMaxRaises(data, minmax) == minmax /\ data.values = <<>>

MinOf(data, minmax) ==
    IF ~minmax \/ data.values = <<>> THEN <<>>
    ELSE IF data.ndim = 1 THEN <<SetMin(Range(data.values))>>
    ELSE [c \in 1..Len(data.values[1]) |->
             SetMin({data.values[r][c] : r \in 1..Len(data.values)})]

MaxOf(data, minmax) ==
    IF ~minmax \/ data.values = <<>> THEN <<>>
    ELSE IF data.ndim = 1 THEN <<SetMax(Range(data.values))>>
    ELSE [c \in 1..Len(data.values[1]) |->
             SetMax({data.values[r][c] : r \in 1..Len(data.values)})]

\* lines 384-402: the buffer and the view the call appends
WithBufferAndView(gltf, data, name, buffer_type) ==
    LET buffers == Append(gltf.buffers, [uri |-> data.values, name |-> name])
        bufferViews == Append(gltf.bufferViews,
                              [buffer |-> Len(buffers) - 1,
                               target |-> buffer_type,
                               name |-> name])
    IN  [gltf EXCEPT !.buffers = buffers, !.bufferViews = bufferViews]

\* lines 415-427: the accessor the call appends
WithAccessor(gltf, data, data_type, data_format, name, minmax) ==
    [gltf EXCEPT !.accessors =
        Append(@, [bufferView |-> Len(gltf.bufferViews) - 1,
                   componentType |-> data_type,
                   count |-> Len(data.values),
                   type |-> data_format,
                   min |-> MinOf(data, minmax),
                   max |-> MaxOf(data, minmax),
                   name |-> name])]

\* lines 372-429: the container after the call (when it raises, the buffer
\* and the view are appended and the accessor is not)
add_gltf_data(gltf, data, buffer_type, data_type, data_format, name, minmax) ==
    LET g == WithBufferAndView(gltf, data, name, buffer_type)
    IN  IF MinMaxRaises(data, minmax) THEN g
        ELSE WithAccessor(g, data, data_type, data_format, name, minmax)

\* line 160: GLTF2()
EmptyGltf ==
    [buffers |-> <<>>, bufferViews |-> <<>>, accessors |-> <<>>,
     images |-> <<>>, textures |-> <<>>, materials |-> <<>>,
     meshes |-> <<>>, nodes |-> <<>>, scenes |-> <<>>, animations |-> <<>>]

\* the Primitive of lines 195-203 with POSITION and NORMAL exchanged
NewPrimitiveExchanged(gltf, i) ==
    [attributes |-> [POSITION |-> Len(gltf.accessors) + 2,
                     NORMAL |-> Len(gltf.accessors) + 1,
                     TEXCOORD_0 |-> Len(gltf.accessors) + 3],
     indices |-> Len(gltf.accessors),
     material |-> i,
     targets |-> <<>>]

\* lines 195-203: the Primitive of the i-th (0-based) GltfPrimitive
NewPrimitive(gltf, i) ==
    [attributes |-> [POSITION |-> Len(gltf.accessors) + 1,
                     NORMAL |-> Len(gltf.accessors) + 2,
                     TEXCOORD_0 |-> Len(gltf.accessors) + 3],
     indices |-> Len(gltf.accessors),
     material |-> i,
     targets |-> <<>>]

\* lines 206-241: the four streams of the primitive
WithStreams(gltf, gltf_primitive, i) ==
    LET g1 == add_gltf_data(gltf, NpArray(1, gltf_primitive.indices),
                  "ELEMENT_ARRAY_BUFFER", "UNSIGNED_INT", "SCALAR",
                  <<"indices", i>>, FALSE)
        g2 == add_gltf_data(g1, NpArray(2, gltf_primitive.vertices),
                  "ARRAY_BUFFER", "FLOAT", "VEC3", <<"vertices", i>>, TRUE)
        g3 == add_gltf_data(g2, NpArray(2, gltf_primitive.normals),
                  "ARRAY_BUFFER", "FLOAT", "VEC3", <<"vertex_normals", i>>, TRUE)
    IN  add_gltf_data(g3, NpArray(2, gltf_primitive.uvs),
            "ARRAY_BUFFER", "FLOAT", "VEC2", <<"uv_coordinates", i>>, TRUE)

\* lines 243-274: the image, the texture and the material of the primitive
\* (the uri stands for the encoded file at texture.main_texture_path)
WithMaterial(gltf, gltf_primitive, i) ==
    [gltf EXCEPT
        !.images = Append(@, [uri |-> gltf_primitive.texture.id]),
        !.textures = Append(@, [source |-> i, name |-> gltf_primitive.texture.name]),
        !.materials = Append(@, [name |-> gltf_primitive.texture.name,
                                 baseColorTexture |-> i])]

\* lines 276-280
TotalVerticesPerKey(gltf_primitive) ==
    IF gltf_primitive.baf_to_vertices_per_key # <<>>
    THEN Concat(gltf_primitive.baf_to_vertices_per_key)
    ELSE <<>>

\* line 283: anim_vertices - gltf_primitive.vertices
Relative(anim_vertices, vertices) ==
    [v \in 1..Len(vertices) |->
        [c \in 1..3 |-> anim_vertices[v][c] - vertices[v][c]]]

\* lines 282-297: the morph targets, from keyframe j (0-based) on;
\* acc = [gltf, targets]
RECURSIVE TargetLoop(_, _, _, _, _)
TargetLoop(total, gltf_primitive, i, j, acc) ==
    IF j >= Len(total) THEN acc
    ELSE LET g == add_gltf_data(acc.gltf,
                      NpArray(2, Relative(total[j + 1], gltf_primitive.vertices)),
                      "ARRAY_BUFFER", "FLOAT", "VEC3", <<"vertices", i, j>>, TRUE)
         IN  TargetLoop(total, gltf_primitive, i, j + 1,
                 [gltf |-> g,
                  targets |-> Append(acc.targets,
                                     [POSITION |-> Len(g.accessors) - 1])])

\* lines 309-311: the weight rows, from keyframe i on; raised: list
\* assignment index out of range at line 311
RECURSIVE WeightRows(_, _, _, _)
WeightRows(keyframe_count, total_keyframe_count, target_index, i) ==
    IF i >= keyframe_count THEN [raised |-> FALSE, rows |-> <<>>]
    ELSE IF target_index + i >= total_keyframe_count
    THEN [raised |-> TRUE, rows |-> <<>>]
    ELSE LET rest == WeightRows(keyframe_count, total_keyframe_count,
                                target_index, i + 1)
             row == [k \in 1..total_keyframe_count |->
                        IF k = target_index + i + 1 THEN 1 ELSE 0]
         IN  [raised |-> rest.raised,
              rows |-> IF rest.raised THEN <<>> ELSE <<row>> \o rest.rows]

\* lines 327-332
TimeValues(baf) ==
    IF baf.key_times.present THEN baf.key_times.values
    ELSE [k \in 1..baf.keyframe_count |-> k - 1]

\* lines 343-361
NewAnimation(baf, time_values_id, weight_values_id) ==
    [name |-> Lower(baf.name),
     samplers |-> <<[input |-> time_values_id,
                     interpolation |-> "LINEAR",
                     output |-> weight_values_id]>>,
     channels |-> <<[sampler |-> 0,
                     target |-> [node |-> 0, path |-> "weights"]]>>]

\* lines 165-176: the animation records of the mesh, in the table's order
MatchingBafs(baf_to_bgfs, name) ==
    LET hit == SelectSeq(baf_to_bgfs,
                   LAMBDA e : \E k \in 1..Len(e.bgfs) : Lower(e.bgfs[k]) = Lower(name))
    IN  [k \in 1..Len(hit) |-> hit[k].baf]

\* ------------------------------------------------------------------ state
VARIABLES
    bgf,              \* the mesh record: name, texture_names, polygons, vertex_mappings
    textures_arg,     \* the resolved textures handed to convert_bgf_file
    target_format,    \* "GLTF" (animated) or "GLTF_STATIC"
    baf_to_bgfs,      \* self.baf_to_bgfs, in the dict's order, with each record
    pc,               \* the stage convert_bgf_file is at
    textures,         \* the local textures, reordered (line 156)
    bafs,             \* the local bafs
    gltf_mesh,        \* gltf_mesh.primitives (line 178)
    gltf,             \* the container
    i,                \* the index of the loop at line 194
    total_vertices_per_key,   \* the local of line 276; unbound until assigned
    animation,        \* the local of line 343, <<>> until assigned
    artifacts,        \* the containers save_binary has written
    raised,           \* the exception that ended the call, "" if none
    call              \* a direct call of calculate_primitive: arguments and outcome

vars == <<bgf, textures_arg, target_format, baf_to_bgfs, pc, textures, bafs,
          gltf_mesh, gltf, i, total_vertices_per_key, animation, artifacts, raised,
          call>>

inputs == <<bgf, textures_arg, target_format, baf_to_bgfs>>

\* ----------------------------------------------------------------- inputs
NameA == <<"A">>
NameB == <<"B">>

MakeBgf(name, texture_names, polygons) ==
    [name |-> name, texture_names |-> texture_names, polygons |-> polygons,
     vertex_mappings |-> VertexMappings]

PolygonAt(slot) ==
    [face |-> [a |-> 0, b |-> 1, c |-> 2],
     texture_index |-> slot,
     texture_mapping |-> [a |-> <<0, 0>>, b |-> <<1, 0>>, c |-> <<0, 1>>]]

\* key_times of n keyframes
Times(n) == [k \in 1..n |-> 5 * (k - 1)]

\* the k-th record of the table: its name tells the records apart
BafName(k) == [j \in 1..k |-> "W"]

\* the positions keyframe k (1-based) of the record gives the mesh's vertices
KeyVertices(k) ==
    [v \in 1..NumVertices |-> <<v + k, 2 * v, -(3 * v)>>]

\* a record has 0..MaxKeyframes keyframes; its timestamps are absent or a
\* list of MaxKeyframes values (the list is read from another file than the
\* keyframe count)
BafChoices ==
    {[keyframe_count |-> n, key_times |-> t] :
        n \in 0..MaxKeyframes,
        t \in {[present |-> FALSE, values |-> <<>>],
               [present |-> TRUE, values |-> Times(MaxKeyframes)]}}

BgfsChoices == {<<<<"a">>>>, <<NameB>>}

BafTables(n) ==
    {[k \in 1..Len(t) |->
         [bgfs |-> t[k][1],
          baf |-> [name |-> BafName(k),
                   keyframe_count |-> t[k][2].keyframe_count,
                   key_times |-> t[k][2].key_times]]] :
        t \in SeqsUpTo(BgfsChoices \X BafChoices, n)}

\* any declared table against any resolved list, for a mesh of two polygons
TextureInputs ==
    [bgf : {MakeBgf(NameA, d, <<PolygonAt(0), PolygonAt(1)>>) :
                d \in SeqsUpTo(RawNames, MaxDeclared)},
     textures : {MakeTextures(r) : r \in SeqsUpTo(RawNames, MaxTextures)},
     target_format : {"GLTF_STATIC"},
     baf_to_bgfs : {<<>>}]

\* any polygon list against short declared tables and resolved lists
MeshInputs ==
    [bgf : {MakeBgf(NameA, d, p) :
                d \in {<<NameA, NameB>>, <<NameB, NameA>>},
                p \in SeqsUpTo(Polygons, MaxPolygons)},
     textures : {MakeTextures(r) : r \in {<<NameA>>, <<NameA, NameB>>}},
     target_format : {"GLTF_STATIC"},
     baf_to_bgfs : {<<>>}]

\* any animation table against a mesh of no or two primitives
AnimationInputs ==
    [bgf : {MakeBgf(NameA, <<NameA, NameB>>, p) :
                p \in {<<>>, <<PolygonAt(0), PolygonAt(1)>>}},
     textures : {MakeTextures(<<NameA, NameB>>)},
     target_format : {"GLTF"},
     baf_to_bgfs : BafTables(MaxBafs)]

\* the static target format against a table of at most one record
StaticInputs ==
    [bgf : {MakeBgf(NameA, <<NameA, NameB>>, <<PolygonAt(0), PolygonAt(1)>>)},
     textures : {MakeTextures(<<NameA, NameB>>)},
     target_format : {"GLTF_STATIC"},
     baf_to_bgfs : BafTables(1)]

Inputs == TextureInputs \cup MeshInputs \cup AnimationInputs \cup StaticInputs

Unbound == [bound |-> FALSE, values |-> <<>>]

\* convert_bgf_file reaches calculate_primitive through _convert_mesh only
NoCall == [state |-> "none"]

Init ==
    /\ \E in \in Inputs :
          /\ bgf = in.bgf
          /\ textures_arg = in.textures
          /\ target_format = in.target_format
          /\ baf_to_bgfs = in.baf_to_bgfs
    /\ pc = "resolve"
    /\ textures = <<>>
    /\ bafs = <<>>
    /\ gltf_mesh = <<>>
    /\ gltf = EmptyGltf
    /\ i = 0
    /\ total_vertices_per_key = Unbound
    /\ animation = <<>>
    /\ artifacts = <<>>
    /\ raised = ""
    /\ call = NoCall

\* ---------------------------------------------------------------- actions
\* lines 131-160: texture resolution, then the empty container
ResolveTextures ==
    /\ pc = "resolve"
    /\ LET r == ReorderTextures(bgf.texture_names, textures_arg)
       IN  IF r.raised
           THEN /\ pc' = "raised"
                /\ raised' = "IndexError at line 152"
                /\ UNCHANGED textures
           ELSE /\ pc' = "load"
                /\ textures' = r.textures
                /\ UNCHANGED raised
    /\ UNCHANGED <<inputs, call, bafs, gltf_mesh, gltf, i, total_vertices_per_key,
                   animation, artifacts>>

\* lines 162-176: the animation records matching the mesh name
LoadBafs ==
    /\ pc = "load"
    /\ bafs' = IF target_format = "GLTF"
               THEN MatchingBafs(baf_to_bgfs, bgf.name)
               ELSE <<>>
    /\ pc' = "mesh"
    /\ UNCHANGED <<inputs, call, textures, gltf_mesh, gltf, i, total_vertices_per_key,
                   animation, artifacts, raised>>

\* lines 178-192: the primitives of the mesh; the scene, the mesh and the node
ConvertMesh ==
    /\ pc = "mesh"
    /\ gltf_mesh' = convert_mesh(bgf, textures)
    /\ gltf' = [gltf EXCEPT !.scenes = Append(@, [nodes |-> <<0>>]),
                            !.meshes = Append(@, [primitives |-> <<>>]),
                            !.nodes = Append(@, [mesh |-> 0])]
    /\ i' = 0
    /\ pc' = "primitives"
    /\ UNCHANGED <<inputs, call, textures, bafs, total_vertices_per_key, animation,
                   artifacts, raised>>

\* lines 194-297: one pass of the loop over gltf_mesh.primitives
AddPrimitive ==
    /\ pc = "primitives"
    /\ i < Len(gltf_mesh)
    /\ LET gltf_primitive == gltf_mesh[i + 1]
           primitive == NewPrimitive(gltf, i)
           g == WithMaterial(WithStreams(gltf, gltf_primitive, i), gltf_primitive, i)
           total == TotalVerticesPerKey(gltf_primitive)
           t == TargetLoop(total, gltf_primitive, i, 0, [gltf |-> g, targets |-> <<>>])
       IN  /\ gltf' = [t.gltf EXCEPT !.meshes[1].primitives =
                          Append(@, [primitive EXCEPT !.targets = t.targets])]
           /\ total_vertices_per_key' = [bound |-> TRUE, values |-> total]
    /\ i' = i + 1
    /\ UNCHANGED <<inputs, call, pc, textures, bafs, gltf_mesh, animation, artifacts, raised>>

\* lines 299-365: the animation of the first matching record
Animate ==
    /\ pc = "primitives"
    /\ i = Len(gltf_mesh)
    /\ IF Len(bafs) = 0
       THEN /\ pc' = "save"
            /\ UNCHANGED <<gltf, animation, raised>>
       ELSE IF ~total_vertices_per_key.bound
       THEN /\ pc' = "raised"
            /\ raised' = "UnboundLocalError at line 302"
            /\ UNCHANGED <<gltf, animation>>
       ELSE LET total_keyframe_count == Len(total_vertices_per_key.values)
                baf == bafs[1]
                w == WeightRows(baf.keyframe_count, total_keyframe_count, 0, 0)
                weights == NpArray(1, Concat(w.rows))
                g1 == add_gltf_data(gltf, weights, "None", "FLOAT", "SCALAR",
                          <<"weight_values">>, FALSE)
                weight_values_id == Len(g1.accessors) - 1
                times == NpArray(1, TimeValues(baf))
                g2 == add_gltf_data(g1, times, "None", "FLOAT", "SCALAR",
                          <<"time_values">>, TRUE)
                time_values_id == Len(g2.accessors) - 1
            IN  IF w.raised
                THEN /\ pc' = "raised"
                     /\ raised' = "IndexError at line 311"
                     /\ UNCHANGED <<gltf, animation>>
                ELSE IF MinMaxRaises(times, TRUE)
                THEN /\ pc' = "raised"
                     /\ raised' = "ValueError at line 409"
                     /\ gltf' = g2
                     /\ UNCHANGED animation
                ELSE /\ pc' = "save"
                     /\ gltf' = g2
                     /\ animation' = <<NewAnimation(baf, time_values_id,
                                                    weight_values_id)>>
                     /\ UNCHANGED raised
    /\ UNCHANGED <<inputs, call, textures, bafs, gltf_mesh, i, total_vertices_per_key,
                   artifacts>>

\* the write of the artifact placed before the animation stage (before line 299)
SaveBinaryBeforeAnimation ==
    /\ pc = "primitives"
    /\ i = Len(gltf_mesh)
    /\ artifacts = <<>>
    /\ artifacts' = Append(artifacts, gltf)
    /\ UNCHANGED <<inputs, call, pc, textures, bafs, gltf_mesh, gltf, i,
                   total_vertices_per_key, animation, raised>>

\* lines 367-370: the one write of the artifact
SaveBinary ==
    /\ pc = "save"
    /\ artifacts' = Append(artifacts, gltf)
    /\ pc' = "done"
    /\ UNCHANGED <<inputs, call, textures, bafs, gltf_mesh, gltf, i,
                   total_vertices_per_key, animation, raised>>

Next ==
    \/ ResolveTextures
    \/ LoadBafs
    \/ ConvertMesh
    \/ AddPrimitive
    \/ Animate
    \/ SaveBinary

Spec == Init /\ [][Next]_vars

\* ------------------------------------------- calculate_primitive, called alone
\* the arguments of a direct call: the arrays of a mesh as _convert_mesh builds
\* them, with the UV array cut to its first uv_count rows
PrimitiveCalls ==
    UNION {{[state |-> "called",
             faces |-> MeshFaces(MakeBgf(NameA, <<>>, polygons)),
             texture_indices |-> MeshTextureIndices(MakeBgf(NameA, <<>>, polygons)),
             vertices |-> MeshVertices(MakeBgf(NameA, <<>>, polygons)),
             normals |-> MeshNormals(MakeBgf(NameA, <<>>, polygons)),
             face_uvs |-> SubSeq(MeshFaceUvs(MakeBgf(NameA, <<>>, polygons)), 1, uv_count),
             texture_index |-> texture_index,
             texture |-> [name |-> NameA, id |-> 1]] :
                uv_count \in 0..Len(polygons), texture_index \in 0..MaxSlot} :
           polygons \in SeqsUpTo(Polygons, MaxPolygons)}

InitPrimitive ==
    /\ call \in PrimitiveCalls
    /\ bgf = MakeBgf(NameA, <<>>, <<>>)
    /\ textures_arg = <<>>
    /\ target_format = "GLTF_STATIC"
    /\ baf_to_bgfs = <<>>
    /\ pc = "calculate_primitive"
    /\ textures = <<>>
    /\ bafs = <<>>
    /\ gltf_mesh = <<>>
    /\ gltf = EmptyGltf
    /\ i = 0
    /\ total_vertices_per_key = Unbound
    /\ animation = <<>>
    /\ artifacts = <<>>
    /\ raised = ""

\* lines 524-605: the call returns a primitive or None, or raises
CalculatePrimitive ==
    /\ pc = "calculate_primitive"
    /\ call.state = "called"
    /\ LET error == calculate_primitive_raised(call.faces, call.texture_indices,
                                                call.face_uvs)
       IN  IF error # ""
           THEN call' = [call EXCEPT !.state = "raised"] @@ [raised |-> error]
           ELSE call' = [call EXCEPT !.state = "returned"]
                            @@ [result |-> calculate_primitive(call.faces,
                                    call.texture_indices, call.vertices,
                                    call.normals, call.face_uvs,
                                    call.texture_index, call.texture)]
    /\ UNCHANGED <<inputs, pc, textures, bafs, gltf_mesh, gltf, i,
                   total_vertices_per_key, animation, artifacts, raised>>

NextPrimitive == CalculatePrimitive

SpecPrimitive == InitPrimitive /\ [][NextPrimitive]_vars

\* ------------------------------------------------------- stages, for claims
\* texture resolution has returned
Resolved == pc \in {"load", "mesh", "primitives", "save", "done"}
                \/ (pc = "raised" /\ raised # "IndexError at line 152")

\* _convert_mesh has returned
MeshConverted == pc \in {"primitives", "save", "done"}
                     \/ (pc = "raised" /\ raised # "IndexError at line 152")

\* the loop over the primitives has ended
PrimitivesAdded == MeshConverted /\ i = Len(gltf_mesh)

\* convert_bgf_file has returned or raised
Ended == pc \in {"done", "raised"}

\* the 0-based positions of the polygons painted with the slot
PolygonsOf(slot) ==
    {p \in 1..Len(bgf.polygons) : bgf.polygons[p].texture_index = slot}

\* ------------------------------------------------------------------- C1
DeclaredNames == {normalize(bgf.texture_names[k]) : k \in 1..Len(bgf.texture_names)}

FirstDeclared(n) ==
    CHOOSE k \in 1..Len(bgf.texture_names) :
        /\ normalize(bgf.texture_names[k]) = n
        /\ \A j \in 1..(k - 1) : normalize(bgf.texture_names[j]) # n

IsDeclared(texture) == normalize(texture.name) \in DeclaredNames

\* out is the resolved textures, each once: first the declared ones by the
\* first position of their name in the declared table, then the others in
\* their original order
IsReordering(out) ==
    /\ Len(out) = Len(textures_arg)
    /\ Range(out) = Range(textures_arg)
    /\ \A x, y \in 1..Len(out) :
          x < y =>
             /\ IsDeclared(out[y]) => IsDeclared(out[x])
             /\ IsDeclared(out[x]) /\ IsDeclared(out[y]) =>
                   FirstDeclared(normalize(out[x].name))
                       <= FirstDeclared(normalize(out[y].name))
             /\ ~IsDeclared(out[x]) /\ ~IsDeclared(out[y]) => out[x].id < out[y].id

\* C1: for every declared table and every list of resolved textures, texture
\* resolution yields the resolved textures, each exactly once: the declared
\* ones ordered by the first position of their name in the declared table,
\* then the undeclared ones in their original order.
C1_ReorderingOfAll ==
    pc # "resolve" => Resolved /\ IsReordering(textures)

\* ------------------------------------------------------------------- C2
\* C2: the texture of every emitted primitive (and with it the material, the
\* texture and the image entry of the primitive) is the resolved texture whose
\* normalized name is the name at the primitive's slot in the declared table.
C2_TextureOfDeclaredSlot ==
    MeshConverted =>
        \A k \in 1..Len(gltf_mesh) :
            LET slot == gltf_mesh[k].texture_index
            IN  slot < Len(bgf.texture_names) =>
                   /\ normalize(gltf_mesh[k].texture.name)
                          = normalize(bgf.texture_names[slot + 1])
                   /\ k <= Len(gltf.materials) =>
                          normalize(gltf.materials[k].name)
                              = normalize(bgf.texture_names[slot + 1])

\* ------------------------------------------------------------------- C3
RECURSIVE Ascending(_)
Ascending(S) ==
    IF S = {} THEN <<>>
    ELSE LET m == CHOOSE x \in S : \A y \in S : x <= y
         IN  <<m>> \o Ascending(S \ {m})

\* the slots below the number of reordered textures that have a face
PaintedSlots == {s \in 0..(Len(textures) - 1) : PolygonsOf(s) # {}}

\* C3: the emitted primitives are one per slot in 0..T-1 that has a face, in
\* ascending slot order, and none for a slot without faces; the material, the
\* texture and the image table have one entry per primitive, entry k built
\* from the texture of primitive k.
C3_OnePrimitivePerPaintedSlot ==
    /\ MeshConverted =>
          [k \in 1..Len(gltf_mesh) |-> gltf_mesh[k].texture_index]
              = Ascending(PaintedSlots)
    /\ PrimitivesAdded =>
          /\ Len(gltf.meshes[1].primitives) = Len(gltf_mesh)
          /\ Len(gltf.materials) = Len(gltf_mesh)
          /\ Len(gltf.textures) = Len(gltf_mesh)
          /\ Len(gltf.images) = Len(gltf_mesh)
          /\ \A k \in 1..Len(gltf_mesh) :
                /\ gltf.images[k].uri = gltf_mesh[k].texture.id
                /\ gltf.textures[k].name = gltf_mesh[k].texture.name
                /\ gltf.materials[k].name = gltf_mesh[k].texture.name
                /\ gltf.meshes[1].primitives[k].material = k - 1

\* two slots, two faces in slot 0 and none in slot 1: one primitive, one
\* material, one texture, one image in the written container
C3_Witness ==
    /\ pc = "done"
    /\ Len(textures) = 2
    /\ Cardinality(PolygonsOf(0)) = 2
    /\ PolygonsOf(1) = {}
    /\ Len(artifacts[1].meshes[1].primitives) = 1
    /\ Len(artifacts[1].materials) = 1
    /\ Len(artifacts[1].textures) = 1
    /\ Len(artifacts[1].images) = 1

\* ------------------------------------------------------------------- C4
\* the keys (original vertex index, U, V) of the corners of the slot's faces,
\* in the order the faces are emitted (a, c, b), read from the mesh record
CornerKeys(slot) ==
    Concat([f \in 1..Len(bgf.polygons) |->
        LET polygon == bgf.polygons[f]
        IN  IF polygon.texture_index # slot THEN <<>>
            ELSE <<<<polygon.face.a, polygon.texture_mapping.a[1], polygon.texture_mapping.a[2]>>,
                   <<polygon.face.c, polygon.texture_mapping.c[1], polygon.texture_mapping.c[2]>>,
                   <<polygon.face.b, polygon.texture_mapping.b[1], polygon.texture_mapping.b[2]>>>>])

\* the first corner with the key of corner x
FirstAt(keys, x) ==
    CHOOSE f \in 1..x : keys[f] = keys[x] /\ \A y \in 1..(f - 1) : keys[y] # keys[x]

\* no original vertex of the slot carries two UV pairs
OneUvPerVertex(keys) ==
    \A x, y \in 1..Len(keys) : keys[x][1] = keys[y][1] => keys[x] = keys[y]

\* C4: two corners get the same compacted index iff they have the same key;
\* the compacted vertices are one per distinct key in order of first
\* occurrence, each with the position, normal and UV of its key; their number
\* is at least the number of distinct original vertices, with equality iff no
\* original vertex carries more than one UV pair.
C4_OneVertexPerKey ==
    MeshConverted =>
        \A k \in 1..Len(gltf_mesh) :
            LET p == gltf_mesh[k]
                keys == CornerKeys(p.texture_index)
                originals == {keys[x][1] : x \in 1..Len(keys)}
            IN  /\ Len(p.indices) = Len(keys)
                /\ \A x, y \in 1..Len(keys) :
                       (p.indices[x] = p.indices[y]) <=> (keys[x] = keys[y])
                /\ Len(p.vertices) = Cardinality(Range(keys))
                /\ Len(p.normals) = Len(p.vertices)
                /\ Len(p.uvs) = Len(p.vertices)
                /\ \A x \in 1..Len(keys) :
                       /\ p.indices[x]
                              = Cardinality({keys[y] : y \in 1..(FirstAt(keys, x) - 1)})
                       /\ p.vertices[p.indices[x] + 1] = MeshVertices(bgf)[keys[x][1] + 1]
                       /\ p.normals[p.indices[x] + 1] = MeshNormals(bgf)[keys[x][1] + 1]
                       /\ p.uvs[p.indices[x] + 1] = <<keys[x][2], keys[x][3]>>
                /\ Len(p.vertices) >= Cardinality(originals)
                /\ (Len(p.vertices) = Cardinality(originals)) <=> OneUvPerVertex(keys)

\* two faces of one slot share an original vertex with different UV
C4_Witness ==
    /\ MeshConverted
    /\ \E k \in 1..Len(gltf_mesh) :
          LET keys == CornerKeys(gltf_mesh[k].texture_index)
          IN  /\ ~OneUvPerVertex(keys)
              /\ \E x, y \in 1..Len(keys) :
                    /\ keys[x][1] = keys[y][1]
                    /\ gltf_mesh[k].indices[x] # gltf_mesh[k].indices[y]
              /\ \E x, y \in 1..Len(keys) :
                    x # y /\ gltf_mesh[k].indices[x] = gltf_mesh[k].indices[y]

\* ------------------------------------------------------------------- C5
\* C5: the index array of every emitted primitive has 3 entries per polygon
\* of the mesh record painted with the primitive's slot.
C5_ThreeIndicesPerPolygon ==
    /\ MeshConverted =>
          \A k \in 1..Len(gltf_mesh) :
              Len(gltf_mesh[k].indices)
                  = 3 * Cardinality(PolygonsOf(gltf_mesh[k].texture_index))
    /\ pc = "done" =>
          \A k \in 1..Len(gltf_mesh) :
              LET primitive == artifacts[1].meshes[1].primitives[k]
              IN  artifacts[1].accessors[primitive.indices + 1].count
                      = 3 * Cardinality(PolygonsOf(gltf_mesh[k].texture_index))

\* a written container with a primitive of two polygons
C5_Witness ==
    /\ pc = "done"
    /\ \E k \in 1..Len(gltf_mesh) :
          /\ Cardinality(PolygonsOf(gltf_mesh[k].texture_index)) = 2
          /\ Len(gltf_mesh[k].indices) = 6
          /\ artifacts[1].accessors[artifacts[1].meshes[1].primitives[k].indices + 1].count = 6

\* ------------------------------------------------------------------- C6
\* the name and the data of the stream the accessor at the (0-based) position
\* reads: the accessor's view, and the view's buffer
Stream(g, accessor) ==
    LET view == g.bufferViews[g.accessors[accessor + 1].bufferView + 1]
    IN  [accessor |-> g.accessors[accessor + 1].name,
         view |-> view.name,
         data |-> g.buffers[view.buffer + 1].uri]

IsStream(g, accessor, name, data) ==
    /\ accessor \in 0..(Len(g.accessors) - 1)
    /\ Stream(g, accessor) = [accessor |-> name, view |-> name, data |-> data]

\* rows one-hot rows of the width, flattened
OneHot(rows, width) ==
    [x \in 1..(rows * width) |->
        IF (x - 1) % width = (x - 1) \div width THEN 1 ELSE 0]

\* every accessor position a record of the container stores, record by record
StoredAccessors(g) ==
    Concat([k \in 1..Len(g.meshes[1].primitives) |->
               LET primitive == g.meshes[1].primitives[k]
               IN  <<primitive.indices, primitive.attributes.POSITION,
                     primitive.attributes.NORMAL, primitive.attributes.TEXCOORD_0>>
                       \o [j \in 1..Len(primitive.targets) |->
                              primitive.targets[j].POSITION]])
        \o Concat([a \in 1..Len(animation) |->
                      <<animation[a].samplers[1].input, animation[a].samplers[1].output>>])

\* C6: every index a record of the container stores is the position of the
\* entry holding its data: the indices, POSITION, NORMAL and TEXCOORD_0 of
\* primitive k (and each morph target) read the accessors made from the
\* arrays of primitive k, material k reads texture k which reads image k, the
\* sampler reads the time and the weight accessor; no position is stored twice.
C6_IndicesPointAtOwnEntries ==
    MeshConverted =>
        /\ \A k \in 1..i :
              LET primitive == gltf.meshes[1].primitives[k]
                  p == gltf_mesh[k]
                  total == TotalVerticesPerKey(p)
              IN  /\ IsStream(gltf, primitive.indices, <<"indices", k - 1>>, p.indices)
                  /\ IsStream(gltf, primitive.attributes.POSITION,
                              <<"vertices", k - 1>>, p.vertices)
                  /\ IsStream(gltf, primitive.attributes.NORMAL,
                              <<"vertex_normals", k - 1>>, p.normals)
                  /\ IsStream(gltf, primitive.attributes.TEXCOORD_0,
                              <<"uv_coordinates", k - 1>>, p.uvs)
                  /\ Len(primitive.targets) = Len(total)
                  /\ \A j \in 1..Len(primitive.targets) :
                        IsStream(gltf, primitive.targets[j].POSITION,
                                 <<"vertices", k - 1, j - 1>>,
                                 Relative(total[j], p.vertices))
                  /\ primitive.material = k - 1
                  /\ gltf.materials[primitive.material + 1].baseColorTexture = k - 1
                  /\ gltf.textures[k].source = k - 1
                  /\ gltf.images[k].uri = p.texture.id
        /\ \A a \in 1..Len(animation) :
              /\ IsStream(gltf, animation[a].samplers[1].input,
                          <<"time_values">>, TimeValues(bafs[1]))
              /\ IsStream(gltf, animation[a].samplers[1].output,
                          <<"weight_values">>,
                          OneHot(bafs[1].keyframe_count,
                                 Len(total_vertices_per_key.values)))
        /\ \A x, y \in 1..Len(StoredAccessors(gltf)) :
              x # y => StoredAccessors(gltf)[x] # StoredAccessors(gltf)[y]

\* a written container of two primitives, with the sampler built
C6_Witness ==
    /\ pc = "done"
    /\ Len(artifacts[1].meshes[1].primitives) = 2
    /\ animation # <<>>
    /\ Len(StoredAccessors(gltf)) = 10

\* ------------------------------------------------------------------- C7
\* the records of the table matching the mesh name without regard to case
MatchingRecords ==
    SelectSeq(baf_to_bgfs,
              LAMBDA e : \E b \in Range(e.bgfs) : Lower(b) = Lower(bgf.name))

\* C7: with the animated target format and a matching animation record, the
\* call completes and the written container has exactly one animation, of the
\* first matching record, with one linear sampler and one channel on the
\* morph weights of node 0.
C7_OneAnimationWritten ==
    (Ended /\ target_format = "GLTF" /\ MatchingRecords # <<>>) =>
        /\ pc = "done"
        /\ Len(artifacts) = 1
        /\ Len(artifacts[1].animations) = 1
        /\ artifacts[1].animations[1].name = Lower(MatchingRecords[1].baf.name)
        /\ Len(artifacts[1].animations[1].samplers) = 1
        /\ artifacts[1].animations[1].samplers[1].interpolation = "LINEAR"
        /\ Len(artifacts[1].animations[1].channels) = 1
        /\ artifacts[1].animations[1].channels[1].target = [node |-> 0, path |-> "weights"]

\* ------------------------------------------------------------------- C8
\* the original vertex behind each compacted vertex of the primitive
OriginalOf(p, v) ==
    LET keys == CornerKeys(p.texture_index)
    IN  keys[CHOOSE x \in 1..Len(keys) : p.indices[x] = v - 1][1]

\* the delta of keyframe j (1-based) for the primitive: the keyframe's
\* position of each compacted vertex minus its base position
Delta(p, j) ==
    [v \in 1..Len(p.vertices) |->
        [c \in 1..3 |-> KeyVertices(j)[OriginalOf(p, v) + 1][c] - p.vertices[v][c]]]

\* C8: with an animation of K keyframes selected, every emitted primitive has
\* exactly K morph targets, target k holding for each compacted vertex its
\* position at keyframe k minus its base position.
C8_MorphTargetPerKeyframe ==
    (PrimitivesAdded /\ bafs # <<>>) =>
        \A k \in 1..Len(gltf_mesh) :
            LET primitive == gltf.meshes[1].primitives[k]
            IN  /\ Len(primitive.targets) = bafs[1].keyframe_count
                /\ \A j \in 1..Len(primitive.targets) :
                      /\ primitive.targets[j].POSITION \in 0..(Len(gltf.accessors) - 1)
                      /\ Stream(gltf, primitive.targets[j].POSITION).data
                             = Delta(gltf_mesh[k], j)

\* ------------------------------------------------------------------- C9
\* C9: the time stream of the selected record is its explicit timestamps when
\* it has them, and 0, 1, ..., K-1 when it has none.
C9_TimeAxis ==
    (Ended /\ bafs # <<>>) =>
        \E a \in 0..(Len(gltf.accessors) - 1) :
            /\ Stream(gltf, a).accessor = <<"time_values">>
            /\ Stream(gltf, a).data
                   = IF bafs[1].key_times.present
                     THEN bafs[1].key_times.values
                     ELSE [k \in 1..bafs[1].keyframe_count |-> k - 1]

\* ------------------------------------------------------------------ C10
\* C10: with the static target format, or with no animation record matching
\* the mesh name, the call still succeeds, adds no weight and no time stream,
\* and the written container has no animation.
C10_NoAnimationStillSucceeds ==
    (Ended /\ (target_format = "GLTF_STATIC" \/ MatchingRecords = <<>>)) =>
        /\ pc = "done"
        /\ Len(artifacts) = 1
        /\ artifacts[1].animations = <<>>
        /\ \A b \in 1..Len(artifacts[1].buffers) :
              artifacts[1].buffers[b].name \notin {<<"weight_values">>, <<"time_values">>}

\* ------------------------------------------------------------------ C11
\* C11: for a mesh with zero polygons, whatever the textures and whether or
\* not an animation record matches, the call raises nothing and writes one
\* container with zero primitives and empty material, texture and image
\* tables.
C11_EmptyMeshStillWritten ==
    (Ended /\ bgf.polygons = <<>>) =>
        /\ pc = "done"
        /\ Len(artifacts) = 1
        /\ artifacts[1].meshes[1].primitives = <<>>
        /\ artifacts[1].materials = <<>>
        /\ artifacts[1].textures = <<>>
        /\ artifacts[1].images = <<>>

\* ------------------------------------------------------------------ C12
\* C12: texture resolution raises no error, for any declared table (names may
\* repeat) and any list of resolved textures.
C12_ResolutionNeverRaises ==
    raised # "IndexError at line 152"

\* ------------------------------------------------------------------ C13
\* the rows of the array that the mask of the call selects
SelectedOf(rows) == Masked(rows, call.texture_indices, call.texture_index)

\* the call selects at least one face and no UV row
FacesWithoutUvs ==
    /\ call.state # "none"
    /\ SelectedOf(call.faces) # <<>>
    /\ SelectedOf(call.face_uvs) = <<>>

\* C13: when the faces selected for a slot are non-empty while the UV rows
\* selected for the same slot are empty (the parallel arrays differ in
\* length), calculate_primitive ends with an error, it does not return None.
C13_MismatchRaises ==
    (FacesWithoutUvs /\ call.state # "called") =>
        /\ call.state = "raised"
        /\ call.raised = "IndexError at line 541"

C13_Witness ==
    /\ FacesWithoutUvs
    /\ call.state = "raised"
    /\ Len(call.face_uvs) < Len(call.faces)

\* ------------------------------------------------------------------ C14
\* C14: the container is written at most once, as the last step, after every
\* primitive, material and stream has been added to it; a call that ended
\* with an exception has written nothing.
C14_WrittenOnceAtTheEnd ==
    /\ Len(artifacts) <= 1
    /\ artifacts # <<>> =>
          /\ pc = "done"
          /\ raised = ""
          /\ PrimitivesAdded
          /\ artifacts[1] = gltf
          /\ Len(artifacts[1].meshes[1].primitives) = Len(gltf_mesh)
          /\ Len(artifacts[1].materials) = Len(gltf_mesh)
    /\ (pc = "raised" \/ raised # "") => artifacts = <<>>

C14_Witness ==
    /\ pc = "done"
    /\ Len(artifacts) = 1
    /\ bafs # <<>>
    /\ Len(artifacts[1].meshes[1].primitives) >= 1
    /\ \E b \in 1..Len(artifacts[1].buffers) :
          artifacts[1].buffers[b].name = <<"time_values">>

\* ------------------------------------------------------------------ C15
\* C15: after any sequence of _add_gltf_data calls on one container the
\* buffer, view and accessor tables have the same length, view k references
\* buffer k and accessor k references view k (each call having appended one
\* buffer, one view and one accessor at the position of the count before it).
C15_TablesAligned ==
    /\ Len(gltf.buffers) = Len(gltf.bufferViews)
    /\ Len(gltf.bufferViews) = Len(gltf.accessors)
    /\ \A k \in 1..Len(gltf.bufferViews) : gltf.bufferViews[k].buffer = k - 1
    /\ \A k \in 1..Len(gltf.accessors) : gltf.accessors[k].bufferView = k - 1

\* ------------------------------------------------------------------ C16
\* the number of morph targets of the primitives of the container
MorphTargets(g) ==
    Len(Concat([k \in 1..Len(g.meshes[1].primitives) |->
                   g.meshes[1].primitives[k].targets]))

\* C16: for the selected animation record with K >= 1 keyframes, building the
\* weight stream raises nothing, and the stream is K rows, flattened, each
\* with one entry per morph target, row k being 1 at keyframe k's own
\* position and 0 elsewhere.
C16_OneHotWeightRows ==
    (/\ Ended
     /\ bafs # <<>>
     /\ bafs[1].keyframe_count >= 1
     /\ total_vertices_per_key.bound) =>
        /\ raised # "IndexError at line 311"
        /\ \E a \in 0..(Len(gltf.accessors) - 1) :
              IsStream(gltf, a, <<"weight_values">>,
                       OneHot(bafs[1].keyframe_count, MorphTargets(gltf)))

\* ------------------------------------------------------------------ C17
\* the number of indices of all the emitted primitives
IndexCount == Len(Concat([k \in 1..Len(gltf_mesh) |-> gltf_mesh[k].indices]))

\* the polygons whose slot has a texture in the reordered list
TexturedPolygons ==
    {p \in 1..Len(bgf.polygons) : bgf.polygons[p].texture_index < Len(textures)}

\* the position of corner c of polygon p, read from the mesh record
CornerPosition(p, c) ==
    LET face == bgf.polygons[p].face
        v == <<face.a, face.c, face.b>>[c]
        vertex1 == bgf.vertex_mappings[v + 1].vertex1
    IN  <<vertex1[1], vertex1[2], -vertex1[3]>>

\* the primitive holds the three corners of polygon p, as the triple of the
\* polygon's rank among the polygons of its slot
HoldsPolygon(primitive, p) ==
    LET rank == Cardinality({q \in PolygonsOf(bgf.polygons[p].texture_index) : q <= p})
    IN  /\ 3 * rank <= Len(primitive.indices)
        /\ \A c \in 1..3 :
              primitive.vertices[primitive.indices[3 * (rank - 1) + c] + 1]
                  = CornerPosition(p, c)

\* C17 as stated: every polygon of the mesh record contributes its three
\* corners to exactly one emitted primitive, so the index arrays of the
\* emitted primitives have 3 entries per polygon of the mesh in total; no
\* polygon is dropped for a slot that is not below the number of textures.
C17_EveryPolygonEmitted ==
    MeshConverted =>
        /\ IndexCount = 3 * Len(bgf.polygons)
        /\ \A p \in 1..Len(bgf.polygons) :
              \E k \in 1..Len(gltf_mesh) :
                  gltf_mesh[k].texture_index = bgf.polygons[p].texture_index

\* C17, amended: every polygon whose slot is below the number of reordered
\* textures contributes its three corners to exactly one emitted primitive,
\* the one of its slot; a polygon whose slot is not below that number is in
\* no primitive; the index arrays have 3 entries per polygon of the first
\* kind in total.
C17_TexturedPolygonsEmitted ==
    MeshConverted =>
        /\ IndexCount = 3 * Cardinality(TexturedPolygons)
        /\ \A p \in 1..Len(bgf.polygons) :
              LET holders == {k \in 1..Len(gltf_mesh) :
                                gltf_mesh[k].texture_index
                                    = bgf.polygons[p].texture_index}
              IN  IF p \in TexturedPolygons
                  THEN /\ Cardinality(holders) = 1
                       /\ \A k \in holders : HoldsPolygon(gltf_mesh[k], p)
                  ELSE holders = {}

\* a converted mesh with a polygon that is emitted and a polygon that is dropped
C17_Witness ==
    /\ MeshConverted
    /\ Len(gltf_mesh) >= 1
    /\ TexturedPolygons # {}
    /\ TexturedPolygons # 1..Len(bgf.polygons)

====
